---- MODULE Spec2Model ----
(***************************************************************************)
(* Model of the personalized-learner-schedule call-to-action service       *)
(* (openedx/features/personalized_learner_schedules/call_to_action.py) and *)
(* of the learning-MFE request classifier                                   *)
(* (lms/djangoapps/course_home_api/utils.py).                               *)
(*                                                                         *)
(* Three specifications share the variables:                               *)
(*   Spec      sequential calls of _is_block_shiftable and get_ctas        *)
(*   SpecMfe   calls of is_request_from_learning_mfe for every setting     *)
(*   SpecConc  threads running _is_block_shiftable concurrently            *)
(***************************************************************************)
EXTENDS Integers, Sequences, FiniteSets

VARIABLES
    past_due_class_warnings,   \* the class attribute: set of class names
    log,                       \* names passed to log.warning, in order
    evals,                     \* history: first property-style evaluation of each class
    LEARNING_MICROFRONTEND_URL,\* settings.LEARNING_MICROFRONTEND_URL
    call,                      \* the call just made and what it gave back
    threads                    \* SpecConc: each thread's frame in _is_block_shiftable

vars == <<past_due_class_warnings, log, evals, LEARNING_MICROFRONTEND_URL, call, threads>>

----------------------------------------------------------------------------
(* Bounds *)

MaxUrlLen == 2
MaxAttempts == 1
MaxChildren == 2
NumThreads == 2

----------------------------------------------------------------------------
(* Strings, as sequences of characters *)

Alphabet == {"a", "b"}

Strings == UNION {[1..n -> Alphabet] : n \in 0..MaxUrlLen}

\* str.startswith
StartsWith(s, prefix) ==
    /\ Len(prefix) <= Len(s)
    /\ SubSeq(s, 1, Len(prefix)) = prefix

----------------------------------------------------------------------------
(* Requests *)

\* request.META: the headers that are set
Metas == {[has_referer |-> FALSE, HTTP_REFERER |-> <<>>]}
            \cup {[has_referer |-> TRUE, HTTP_REFERER |-> s] : s \in Strings}

\* get_current_request() gives None outside a request
NoRequest == [is_none |-> TRUE, mobile_app |-> FALSE,
              META |-> [has_referer |-> FALSE, HTTP_REFERER |-> <<>>]]

HttpRequests == {[is_none |-> FALSE, mobile_app |-> m, META |-> h] :
                    m \in BOOLEAN, h \in Metas}

\* request.META.get('HTTP_REFERER', '')
MetaGetReferer(meta) == IF meta.has_referer THEN meta.HTTP_REFERER ELSE <<>>

\* is_request_from_learning_mfe(request), with the setting it reads
is_request_from_learning_mfe(request, url) ==
    StartsWith(MetaGetReferer(request.META), url)

\* openedx.core.lib.mobile_utils.is_request_from_mobile_app
is_request_from_mobile_app(request) == request.mobile_app

----------------------------------------------------------------------------
(* XBlocks *)

\* type(xblock), module-qualified: distinct classes may share a __name__
LeafTypes == {"xmodule.capa_block.ProblemBlock",
              "custom_xblocks.problem.ProblemBlock",
              "xmodule.lti_block.LTIBlock"}

VerticalType == "xmodule.vertical_block.VerticalBlock"

\* type(xblock).__name__
TypeName(type) ==
    CASE type = "xmodule.capa_block.ProblemBlock" -> "ProblemBlock"
      [] type = "custom_xblocks.problem.ProblemBlock" -> "ProblemBlock"
      [] type = "xmodule.lti_block.LTIBlock" -> "LTIBlock"
      [] OTHER -> "VerticalBlock"

Names == {TypeName(t) : t \in LeafTypes}

\* xblock.scope_ids.usage_id.context_key
Courses == {"course-v1:X+Y+Z", "course-v1:P+Q+R"}

\* max_attempts = None: the problem has no attempt limit
None == -1

LeafAttrs == {"is_past_due", "self_paced", "attempts", "max_attempts"}

\* An xblock: the attributes it has (hasattr) and their values. An attribute it
\* lacks holds a fixed value that nothing reads. is_past_due is either a method
\* (callable, returning is_past_due_returns) or a property (is_past_due_value).
Leaf(type, attrs, callable, returns, value, self_paced, attempts, max_attempts, key) ==
    [type |-> type, attrs |-> attrs, callable |-> callable,
     is_past_due_returns |-> returns, is_past_due_value |-> value,
     self_paced |-> self_paced, attempts |-> attempts,
     max_attempts |-> max_attempts, context_key |-> key, display_items |-> <<>>]

WellStored(b) ==
    /\ "is_past_due" \notin b.attrs =>
          ~b.callable /\ ~b.is_past_due_returns /\ ~b.is_past_due_value
    /\ b.callable => ~b.is_past_due_value
    /\ ~b.callable => ~b.is_past_due_returns
    /\ "self_paced" \notin b.attrs => ~b.self_paced
    /\ "attempts" \notin b.attrs => b.attempts = 0
    /\ "max_attempts" \notin b.attrs => b.max_attempts = None

LeafBlocks ==
    {b \in {Leaf(t, a, k, r, v, s, n, m, c) :
                t \in LeafTypes, a \in SUBSET LeafAttrs, k \in BOOLEAN,
                r \in BOOLEAN, v \in BOOLEAN, s \in BOOLEAN,
                n \in 0..MaxAttempts, m \in {None} \cup 0..MaxAttempts,
                c \in Courses} : WellStored(b)}

\* The blocks a vertical is built from, and the blocks the threads evaluate
DisplayItemPool ==
    { Leaf("xmodule.capa_block.ProblemBlock", {"is_past_due", "self_paced"},
           FALSE, FALSE, TRUE, TRUE, 0, None, "course-v1:X+Y+Z"),
      Leaf("custom_xblocks.problem.ProblemBlock", {"is_past_due", "self_paced"},
           FALSE, FALSE, FALSE, TRUE, 0, None, "course-v1:X+Y+Z"),
      Leaf("xmodule.lti_block.LTIBlock", LeafAttrs,
           TRUE, TRUE, FALSE, TRUE, 0, MaxAttempts, "course-v1:X+Y+Z"),
      Leaf("xmodule.lti_block.LTIBlock", LeafAttrs,
           TRUE, TRUE, FALSE, TRUE, MaxAttempts, MaxAttempts, "course-v1:P+Q+R"),
      Leaf("xmodule.lti_block.LTIBlock", {"is_past_due"},
           FALSE, FALSE, TRUE, FALSE, 0, None, "course-v1:P+Q+R"),
      Leaf("xmodule.capa_block.ProblemBlock", {"self_paced"},
           FALSE, FALSE, FALSE, TRUE, 0, None, "course-v1:P+Q+R") }

\* A vertical: no is_past_due of its own; get_display_items() yields its children
Vertical(items, key) ==
    [type |-> VerticalType, attrs |-> {"self_paced", "get_display_items"},
     callable |-> FALSE, is_past_due_returns |-> FALSE, is_past_due_value |-> FALSE,
     self_paced |-> TRUE, attempts |-> 0, max_attempts |-> None,
     context_key |-> key, display_items |-> items]

VerticalBlocks ==
    {Vertical(items, c) :
        items \in UNION {[1..n -> DisplayItemPool] : n \in 0..MaxChildren},
        c \in Courses}

hasattr(xblock, name) == name \in xblock.attrs

----------------------------------------------------------------------------
(* PersonalizedLearnerScheduleCallToAction *)

CAPA_SUBMIT_DISABLED == "capa_submit_disabled"
VERTICAL_BANNER == "vertical_banner"

\* The class state the static methods read and write
ClassState == [warnings |-> past_due_class_warnings, log |-> log, evals |-> evals]

\* name in past_due_class_warnings
AlreadyWarned(name, warnings) == name \in warnings

\* _log_past_due_warning that logs and forgets to record the name
LogPastDueWarning_NoAdd(name, st) ==
    IF AlreadyWarned(name, st.warnings)
    THEN st
    ELSE [st EXCEPT !.log = Append(@, name)]

\* _log_past_due_warning(name)
LogPastDueWarning(name, st) ==
    IF AlreadyWarned(name, st.warnings)
    THEN st
    ELSE [st EXCEPT !.log = Append(@, name),
                    !.warnings = @ \cup {name}]

\* History of the else branch of _is_block_shiftable: the first time a class is
\* evaluated with a non-callable is_past_due, and whether that call logged
NoteEval(type, before, after) ==
    IF \E i \in 1..Len(before.evals) : before.evals[i].type = type
    THEN after
    ELSE [after EXCEPT !.evals =
            Append(@, [type |-> type, warned |-> Len(after.log) > Len(before.log)])]

\* can_attempt with the limit itself still allowed: attempts <= max_attempts
CanAttempt_OffByOne(xblock) ==
    IF hasattr(xblock, "attempts") /\ hasattr(xblock, "max_attempts")
    THEN xblock.max_attempts = None \/ xblock.attempts <= xblock.max_attempts
    ELSE TRUE

\* can_attempt
CanAttempt(xblock) ==
    IF hasattr(xblock, "attempts") /\ hasattr(xblock, "max_attempts")
    THEN xblock.max_attempts = None \/ xblock.attempts < xblock.max_attempts
    ELSE TRUE

\* is_past_due read but never called: a bound method is truthy
PastDue_NotCalled(xblock) ==
    IF xblock.callable
    THEN TRUE
    ELSE xblock.is_past_due_value

\* is_past_due, the method called or the property read
PastDue(xblock) ==
    IF xblock.callable
    THEN xblock.is_past_due_returns
    ELSE xblock.is_past_due_value

\* return xblock.self_paced and can_attempt and is_past_due
ShiftableReturn(xblock, can_attempt, is_past_due, st) ==
    IF ~hasattr(xblock, "self_paced")
    THEN [outcome |-> "AttributeError", value |-> FALSE, st |-> st]
    ELSE [outcome |-> "return",
          value |-> xblock.self_paced /\ can_attempt /\ is_past_due, st |-> st]

\* _is_block_shiftable without the hasattr test: reading is_past_due raises
IsBlockShiftable_NoHasattr(xblock, st) ==
    IF ~hasattr(xblock, "is_past_due")
    THEN [outcome |-> "AttributeError", value |-> FALSE, st |-> st]
    ELSE LET can_attempt == CanAttempt(xblock)
             st2 == IF xblock.callable
                    THEN st
                    ELSE NoteEval(xblock.type, st,
                                  LogPastDueWarning(TypeName(xblock.type), st))
         IN  ShiftableReturn(xblock, can_attempt, PastDue(xblock), st2)

\* _is_block_shiftable(xblock), from class state st
IsBlockShiftable(xblock, st) ==
    IF ~hasattr(xblock, "is_past_due")
    THEN [outcome |-> "return", value |-> FALSE, st |-> st]
    ELSE LET can_attempt == CanAttempt(xblock)
             st2 == IF xblock.callable
                    THEN st
                    ELSE NoteEval(xblock.type, st,
                                  LogPastDueWarning(TypeName(xblock.type), st))
         IN  ShiftableReturn(xblock, can_attempt, PastDue(xblock), st2)

\* _make_reset_deadlines_cta(xblock)
MakeResetDeadlinesCta(xblock) ==
    [link |-> "reverse(RESET_COURSE_DEADLINES_NAME)",
     link_name |-> "Shift due dates",
     form_values |-> [course_id |-> xblock.context_key],
     description |-> "To participate in this assignment, ..."]

RECURSIVE AnyShiftable(_, _)

\* only the first display item is looked at
AnyShiftable_FirstOnly(items, st) ==
    IF items = <<>>
    THEN [outcome |-> "return", value |-> FALSE, st |-> st]
    ELSE IsBlockShiftable(Head(items), st)

\* any(self._is_block_shiftable(item) for item in items): stops at the first
\* shiftable item; an exception leaves the loop
AnyShiftable(items, st) ==
    IF items = <<>>
    THEN [outcome |-> "return", value |-> FALSE, st |-> st]
    ELSE LET r == IsBlockShiftable(Head(items), st)
         IN  IF r.outcome # "return" \/ r.value
             THEN r
             ELSE AnyShiftable(Tail(items), r.st)

\* the checks with the MFE one left out
Suppressed_MobileOnly(request, url) ==
    ~request.is_none /\ is_request_from_mobile_app(request)

\* the checks that disable the calls to action for mobile and MFE
Suppressed(request, url) ==
    LET is_mobile_app == ~request.is_none /\ is_request_from_mobile_app(request)
        is_learning_mfe == ~request.is_none /\ is_request_from_learning_mfe(request, url)
    IN  is_mobile_app \/ is_learning_mfe

\* the body of get_ctas offering the shift whenever the submit button is disabled
CategoryCtas_Unchecked(xblock, category, st) ==
    IF category = CAPA_SUBMIT_DISABLED
    THEN [outcome |-> "return", ctas |-> <<MakeResetDeadlinesCta(xblock)>>, st |-> st]
    ELSE IF category = VERTICAL_BANNER
    THEN IF ~hasattr(xblock, "get_display_items")
         THEN [outcome |-> "AttributeError", ctas |-> <<>>, st |-> st]
         ELSE LET r == AnyShiftable(xblock.display_items, st)
              IN  [outcome |-> r.outcome,
                   ctas |-> IF r.outcome = "return" /\ r.value
                            THEN <<MakeResetDeadlinesCta(xblock)>> ELSE <<>>,
                   st |-> r.st]
    ELSE [outcome |-> "return", ctas |-> <<>>, st |-> st]

\* the body of get_ctas with else in place of the test for CAPA_SUBMIT_DISABLED
CategoryCtas_FallThrough(xblock, category, st) ==
    IF category = VERTICAL_BANNER
    THEN IF ~hasattr(xblock, "get_display_items")
         THEN [outcome |-> "AttributeError", ctas |-> <<>>, st |-> st]
         ELSE LET r == AnyShiftable(xblock.display_items, st)
              IN  [outcome |-> r.outcome,
                   ctas |-> IF r.outcome = "return" /\ r.value
                            THEN <<MakeResetDeadlinesCta(xblock)>> ELSE <<>>,
                   st |-> r.st]
    ELSE LET r == IsBlockShiftable(xblock, st)
         IN  [outcome |-> r.outcome,
              ctas |-> IF r.outcome = "return" /\ r.value
                       THEN <<MakeResetDeadlinesCta(xblock)>> ELSE <<>>,
              st |-> r.st]

\* the body of get_ctas after the suppression checks
CategoryCtas(xblock, category, st) ==
    IF category = CAPA_SUBMIT_DISABLED
    THEN LET r == IsBlockShiftable(xblock, st)
         IN  [outcome |-> r.outcome,
              ctas |-> IF r.outcome = "return" /\ r.value
                       THEN <<MakeResetDeadlinesCta(xblock)>> ELSE <<>>,
              st |-> r.st]
    ELSE IF category = VERTICAL_BANNER
    THEN IF ~hasattr(xblock, "get_display_items")
         THEN [outcome |-> "AttributeError", ctas |-> <<>>, st |-> st]
         ELSE LET r == AnyShiftable(xblock.display_items, st)
              IN  [outcome |-> r.outcome,
                   ctas |-> IF r.outcome = "return" /\ r.value
                            THEN <<MakeResetDeadlinesCta(xblock)>> ELSE <<>>,
                   st |-> r.st]
    ELSE [outcome |-> "return", ctas |-> <<>>, st |-> st]

\* get_ctas(xblock, category), with the current request and the MFE setting
GetCtas(xblock, category, request, url, st) ==
    IF Suppressed(request, url)
    THEN [outcome |-> "return", ctas |-> <<>>, st |-> st]
    ELSE CategoryCtas(xblock, category, st)

----------------------------------------------------------------------------
(* Sequential calls *)

Categories == {CAPA_SUBMIT_DISABLED, VERTICAL_BANNER, "course_outline"}

\* The values the setting takes in the runs of get_ctas
SettingsSamples == {<<>>, <<"a">>}

\* The requests get_ctas is called under: none, or from the mobile app or not,
\* with no referrer, a referrer at or below the MFE's URL, or another referrer
SampleMetas(url) ==
    {[has_referer |-> FALSE, HTTP_REFERER |-> <<>>]}
        \cup {[has_referer |-> TRUE, HTTP_REFERER |-> s] :
                s \in {url, url \o <<"a">>, <<"b">>}}

SampleRequests(url) ==
    {NoRequest} \cup {[is_none |-> FALSE, mobile_app |-> m, META |-> h] :
                        m \in BOOLEAN, h \in SampleMetas(url)}

\* a block with none of the attributes the service reads
BareBlock == Leaf("xmodule.capa_block.ProblemBlock", {},
                  FALSE, FALSE, FALSE, FALSE, 0, None, "course-v1:X+Y+Z")

NoXBlock == Vertical(<<>>, "course-v1:X+Y+Z")

NoCall == [op |-> "idle", xblock |-> NoXBlock, category |-> "", request |-> NoRequest,
           outcome |-> "return", value |-> FALSE, ctas |-> <<>>]

Threads == 1..NumThreads

IdleFrame == [pc |-> "idle", xblock |-> NoXBlock, can_attempt |-> FALSE,
              is_past_due |-> FALSE, outcome |-> "return", value |-> FALSE]

InitClass ==
    /\ past_due_class_warnings = {}
    /\ log = <<>>
    /\ evals = <<>>
    /\ call = NoCall
    /\ threads = [t \in Threads |-> IdleFrame]

Init ==
    /\ InitClass
    /\ LEARNING_MICROFRONTEND_URL \in SettingsSamples

SetClassState(st) ==
    /\ past_due_class_warnings' = st.warnings
    /\ log' = st.log
    /\ evals' = st.evals

\* a caller evaluates _is_block_shiftable(xblock)
IsBlockShiftableCall(xblock) ==
    /\ call.op = "idle"
    /\ LET r == IsBlockShiftable(xblock, ClassState)
       IN  /\ SetClassState(r.st)
           /\ call' = [NoCall EXCEPT !.op = "is_shiftable", !.xblock = xblock,
                                     !.outcome = r.outcome, !.value = r.value]
    /\ UNCHANGED <<LEARNING_MICROFRONTEND_URL, threads>>

\* a caller evaluates get_ctas(xblock, category) while request is current
GetCtasCall(xblock, category, request) ==
    /\ call.op = "idle"
    /\ LET r == GetCtas(xblock, category, request, LEARNING_MICROFRONTEND_URL, ClassState)
       IN  /\ SetClassState(r.st)
           /\ call' = [NoCall EXCEPT !.op = "get_ctas", !.xblock = xblock,
                                     !.category = category, !.request = request,
                                     !.outcome = r.outcome, !.ctas = r.ctas]
    /\ UNCHANGED <<LEARNING_MICROFRONTEND_URL, threads>>

\* a caller evaluates is_request_from_learning_mfe(request)
IsRequestFromLearningMfeCall(request) ==
    /\ call.op = "idle"
    /\ call' = [NoCall EXCEPT !.op = "is_request_from_learning_mfe",
                              !.request = request,
                              !.value = is_request_from_learning_mfe(
                                            request, LEARNING_MICROFRONTEND_URL)]
    /\ UNCHANGED <<past_due_class_warnings, log, evals,
                   LEARNING_MICROFRONTEND_URL, threads>>

\* the caller takes the result and goes on
Return ==
    /\ call.op # "idle"
    /\ call' = NoCall
    /\ UNCHANGED <<past_due_class_warnings, log, evals,
                   LEARNING_MICROFRONTEND_URL, threads>>

\* one call at a time: the next call starts when the caller has the last result
Next ==
    \/ /\ call.op = "idle"
       /\ \E xblock \in LeafBlocks : IsBlockShiftableCall(xblock)
    \/ /\ call.op = "idle"
       /\ \E xblock \in DisplayItemPool \cup VerticalBlocks \cup {BareBlock},
             category \in Categories,
             request \in SampleRequests(LEARNING_MICROFRONTEND_URL) :
               GetCtasCall(xblock, category, request)
    \/ Return

Spec == Init /\ [][Next]_vars

InitMfe ==
    /\ InitClass
    /\ LEARNING_MICROFRONTEND_URL \in Strings

NextMfe ==
    \/ /\ call.op = "idle"
       /\ \E request \in HttpRequests : IsRequestFromLearningMfeCall(request)
    \/ Return

SpecMfe == InitMfe /\ [][NextMfe]_vars

----------------------------------------------------------------------------
(* Concurrent calls of _is_block_shiftable: one frame per thread, one step per
   access to the shared set or to the log *)

SetFrame(t, frame) == threads' = [threads EXCEPT ![t] = frame]

\* lines 70-79: the hasattr test, can_attempt, and the callable branch
Enter(t, xblock) ==
    /\ threads[t].pc = "idle"
    /\ SetFrame(t,
          IF ~hasattr(xblock, "is_past_due")
          THEN [IdleFrame EXCEPT !.pc = "done", !.xblock = xblock,
                                 !.outcome = "return", !.value = FALSE]
          ELSE IF xblock.callable
          THEN [IdleFrame EXCEPT !.pc = "l84", !.xblock = xblock,
                                 !.can_attempt = CanAttempt(xblock),
                                 !.is_past_due = xblock.is_past_due_returns]
          ELSE [IdleFrame EXCEPT !.pc = "l88", !.xblock = xblock,
                                 !.can_attempt = CanAttempt(xblock)])
    /\ UNCHANGED <<past_due_class_warnings, log, evals,
                   LEARNING_MICROFRONTEND_URL, call>>

\* line 88: the membership test of _log_past_due_warning
CheckWarned(t) ==
    /\ threads[t].pc = "l88"
    /\ SetFrame(t, [threads[t] EXCEPT !.pc =
          IF AlreadyWarned(TypeName(threads[t].xblock.type), past_due_class_warnings)
          THEN "l82" ELSE "l91"])
    /\ UNCHANGED <<past_due_class_warnings, log, evals,
                   LEARNING_MICROFRONTEND_URL, call>>

\* line 91: log.warning
LogWarning(t) ==
    /\ threads[t].pc = "l91"
    /\ log' = Append(log, TypeName(threads[t].xblock.type))
    /\ SetFrame(t, [threads[t] EXCEPT !.pc = "l94"])
    /\ UNCHANGED <<past_due_class_warnings, evals, LEARNING_MICROFRONTEND_URL, call>>

\* line 94 assigning a new set in place of adding to the shared one
AddWarned_Overwrite(t) ==
    /\ threads[t].pc = "l94"
    /\ past_due_class_warnings' = {TypeName(threads[t].xblock.type)}
    /\ SetFrame(t, [threads[t] EXCEPT !.pc = "l82"])
    /\ UNCHANGED <<log, evals, LEARNING_MICROFRONTEND_URL, call>>

\* line 94: past_due_class_warnings.add(name)
AddWarned(t) ==
    /\ threads[t].pc = "l94"
    /\ past_due_class_warnings' =
          past_due_class_warnings \cup {TypeName(threads[t].xblock.type)}
    /\ SetFrame(t, [threads[t] EXCEPT !.pc = "l82"])
    /\ UNCHANGED <<log, evals, LEARNING_MICROFRONTEND_URL, call>>

\* line 82: is_past_due = xblock.is_past_due
ReadProperty(t) ==
    /\ threads[t].pc = "l82"
    /\ SetFrame(t, [threads[t] EXCEPT !.pc = "l84",
                                      !.is_past_due = threads[t].xblock.is_past_due_value])
    /\ UNCHANGED <<past_due_class_warnings, log, evals,
                   LEARNING_MICROFRONTEND_URL, call>>

\* line 84: the return
ReturnShiftable(t) ==
    /\ threads[t].pc = "l84"
    /\ LET r == ShiftableReturn(threads[t].xblock, threads[t].can_attempt,
                                threads[t].is_past_due, ClassState)
       IN  SetFrame(t, [threads[t] EXCEPT !.pc = "done", !.outcome = r.outcome,
                                          !.value = r.value])
    /\ UNCHANGED <<past_due_class_warnings, log, evals,
                   LEARNING_MICROFRONTEND_URL, call>>

InitConc ==
    /\ InitClass
    /\ LEARNING_MICROFRONTEND_URL = <<>>

NextConc ==
    \E t \in Threads :
        \/ \E xblock \in DisplayItemPool : Enter(t, xblock)
        \/ CheckWarned(t)
        \/ LogWarning(t)
        \/ AddWarned(t)
        \/ ReadProperty(t)
        \/ ReturnShiftable(t)

SpecConc == InitConc /\ [][NextConc]_vars

----------------------------------------------------------------------------
(* Vocabulary of the properties *)

IsPrefix(p, s) == Len(p) <= Len(s) /\ \A i \in 1..Len(p) : s[i] = p[i]

\* the current request is classified as mobile-app or as learning-MFE origin
FromMobileOrMfe(request) ==
    /\ ~request.is_none
    /\ \/ request.mobile_app
       \/ is_request_from_learning_mfe(request, LEARNING_MICROFRONTEND_URL)

\* the verdict of is_shiftable on a block (it does not depend on the class state)
Verdict(xblock) == IsBlockShiftable(xblock, ClassState)

Shiftable(xblock) == Verdict(xblock).outcome = "return" /\ Verdict(xblock).value

\* a block of the data model: it carries the self_paced flag
HasPacing(xblock) == hasattr(xblock, "self_paced")

ItemsOf(xblock) == {xblock.display_items[i] : i \in 1..Len(xblock.display_items)}

IsResetDeadlinesCtaFor(cta, xblock) ==
    /\ cta.link = "reverse(RESET_COURSE_DEADLINES_NAME)"
    /\ cta.link_name = "Shift due dates"
    /\ cta.form_values = [course_id |-> xblock.context_key]

Count(seq, x) == Cardinality({i \in 1..Len(seq) : seq[i] = x})

----------------------------------------------------------------------------
(* Properties of get_ctas *)

\* C1: get_ctas returns the empty list whenever the current request is classified
\* as mobile-app or learning-MFE origin, for every category and every block.
C1_SuppressedReturnsEmpty ==
    (call.op = "get_ctas" /\ FromMobileOrMfe(call.request))
        => (call.outcome = "return" /\ call.ctas = <<>>)

\* an MFE request (not mobile) asked for the banner of a vertical whose children
\* are all shiftable, and got nothing
C1_Witness ==
    /\ call.op = "get_ctas"
    /\ FromMobileOrMfe(call.request)
    /\ ~call.request.mobile_app
    /\ call.category = VERTICAL_BANNER
    /\ Len(call.xblock.display_items) >= 2
    /\ \A item \in ItemsOf(call.xblock) : Shiftable(item)
    /\ call.ctas = <<>>

\* C2: unsuppressed, get_ctas(block, CAPA_SUBMIT_DISABLED) returns exactly one
\* reset-deadlines descriptor when is_shiftable(block) is true and the empty list
\* when it is false.
C2_SubmitDisabled ==
    (/\ call.op = "get_ctas"
     /\ ~FromMobileOrMfe(call.request)
     /\ call.category = CAPA_SUBMIT_DISABLED
     /\ Verdict(call.xblock).outcome = "return")
        => /\ call.outcome = "return"
           /\ Verdict(call.xblock).value =>
                 /\ Len(call.ctas) = 1
                 /\ IsResetDeadlinesCtaFor(call.ctas[1], call.xblock)
           /\ ~Verdict(call.xblock).value => call.ctas = <<>>

C2_Witness ==
    /\ call.op = "get_ctas"
    /\ ~FromMobileOrMfe(call.request)
    /\ ~call.request.is_none
    /\ call.category = CAPA_SUBMIT_DISABLED
    /\ Shiftable(call.xblock)
    /\ Len(call.ctas) = 1

\* C3: unsuppressed, get_ctas(vertical, VERTICAL_BANNER) returns exactly one
\* descriptor if at least one child yielded by get_display_items() is shiftable
\* and the empty list otherwise, never more than one, and the descriptor carries
\* the vertical's own course id. The children are blocks of the data model
\* (each carries self_paced).
C3_VerticalBanner ==
    (/\ call.op = "get_ctas"
     /\ ~FromMobileOrMfe(call.request)
     /\ call.category = VERTICAL_BANNER
     /\ hasattr(call.xblock, "get_display_items")
     /\ \A item \in ItemsOf(call.xblock) : HasPacing(item))
        => /\ call.outcome = "return"
           /\ Len(call.ctas) <= 1
           /\ (\E item \in ItemsOf(call.xblock) : Shiftable(item)) =>
                 /\ Len(call.ctas) = 1
                 /\ IsResetDeadlinesCtaFor(call.ctas[1], call.xblock)
           /\ ~(\E item \in ItemsOf(call.xblock) : Shiftable(item)) =>
                 call.ctas = <<>>

\* two distinct shiftable children of another course: one descriptor, for the
\* vertical's course
C3_Witness ==
    /\ call.op = "get_ctas"
    /\ ~FromMobileOrMfe(call.request)
    /\ call.category = VERTICAL_BANNER
    /\ Len(call.xblock.display_items) >= 2
    /\ Shiftable(call.xblock.display_items[1])
    /\ Shiftable(call.xblock.display_items[2])
    /\ call.xblock.display_items[1] # call.xblock.display_items[2]
    /\ call.xblock.display_items[1].context_key # call.xblock.context_key
    /\ call.xblock.display_items[2].context_key # call.xblock.context_key
    /\ Len(call.ctas) = 1
    /\ call.ctas[1].form_values.course_id = call.xblock.context_key

\* C4: for a category other than the two recognized ones get_ctas returns the
\* empty list and raises nothing, for every block, suppressed or not.
C4_UnknownCategory ==
    (call.op = "get_ctas" /\ call.category \notin {CAPA_SUBMIT_DISABLED, VERTICAL_BANNER})
        => (call.outcome = "return" /\ call.ctas = <<>>)

C4_Witness ==
    /\ call.op = "get_ctas"
    /\ call.category \notin {CAPA_SUBMIT_DISABLED, VERTICAL_BANNER}
    /\ call.xblock.attrs = {}
    /\ ~FromMobileOrMfe(call.request)
    /\ call.outcome = "return"
    /\ call.ctas = <<>>

----------------------------------------------------------------------------
(* Properties of is_shiftable *)

\* the attempt gate, case by case
AttemptsLeft(xblock) ==
    CASE ~hasattr(xblock, "attempts") -> TRUE
      [] ~hasattr(xblock, "max_attempts") -> TRUE
      [] xblock.max_attempts = None -> TRUE
      [] OTHER -> xblock.attempts < xblock.max_attempts

\* what the past-due indicator says, whichever shape it has
SaysPastDue(xblock) ==
    \/ xblock.callable /\ xblock.is_past_due_returns
    \/ ~xblock.callable /\ xblock.is_past_due_value

\* C5: for a block with the past-due capability (and the self_paced flag of the
\* data model) is_shiftable equals self_paced AND can_attempt AND is_past_due;
\* it is false whenever attempts >= max_attempts and true for a self-paced,
\* past-due block with unlimited attempts.
C5_ShiftableRule ==
    (/\ call.op = "is_shiftable"
     /\ hasattr(call.xblock, "is_past_due")
     /\ HasPacing(call.xblock))
        => /\ call.outcome = "return"
           /\ call.value = (/\ call.xblock.self_paced
                            /\ AttemptsLeft(call.xblock)
                            /\ SaysPastDue(call.xblock))
           /\ (/\ hasattr(call.xblock, "attempts")
               /\ hasattr(call.xblock, "max_attempts")
               /\ call.xblock.max_attempts # None
               /\ call.xblock.attempts >= call.xblock.max_attempts) => ~call.value
           /\ (/\ call.xblock.self_paced
               /\ SaysPastDue(call.xblock)
               /\ \/ ~hasattr(call.xblock, "max_attempts")
                  \/ call.xblock.max_attempts = None) => call.value

\* a self-paced, past-due block whose attempts are used up is not shiftable
C5_Witness ==
    /\ call.op = "is_shiftable"
    /\ hasattr(call.xblock, "attempts")
    /\ hasattr(call.xblock, "max_attempts")
    /\ call.xblock.max_attempts # None
    /\ call.xblock.max_attempts > 0
    /\ call.xblock.attempts = call.xblock.max_attempts
    /\ call.xblock.self_paced
    /\ SaysPastDue(call.xblock)
    /\ call.outcome = "return"
    /\ ~call.value

\* C6, as claimed: is_shiftable never raises; a block without the past-due
\* capability gives false, and so does a block missing attempts, max_attempts
\* or self_paced.
C6_AsClaimed ==
    call.op = "is_shiftable"
        => /\ call.outcome = "return"
           /\ ~hasattr(call.xblock, "is_past_due") => ~call.value
           /\ (\E a \in {"attempts", "max_attempts", "self_paced"} :
                  ~hasattr(call.xblock, a)) => ~call.value

\* C6, amended: a block without the past-due capability gives false and no error,
\* whatever else it has. With the capability, a missing attempts or max_attempts
\* raises nothing and counts as attempts left (the result is self_paced AND
\* is_past_due), and a missing self_paced raises AttributeError.
C6_MissingCapabilities ==
    call.op = "is_shiftable"
        => /\ ~hasattr(call.xblock, "is_past_due") =>
                 (call.outcome = "return" /\ ~call.value)
           /\ (/\ hasattr(call.xblock, "is_past_due")
               /\ HasPacing(call.xblock)
               /\ \/ ~hasattr(call.xblock, "attempts")
                  \/ ~hasattr(call.xblock, "max_attempts")) =>
                 /\ call.outcome = "return"
                 /\ call.value = (call.xblock.self_paced /\ SaysPastDue(call.xblock))
           /\ (hasattr(call.xblock, "is_past_due") /\ ~HasPacing(call.xblock)) =>
                 call.outcome = "AttributeError"

\* a past-due block with every attribute but self_paced: the call raises
C6_Witness ==
    /\ call.op = "is_shiftable"
    /\ call.xblock.attrs = {"is_past_due", "attempts", "max_attempts"}
    /\ SaysPastDue(call.xblock)
    /\ call.outcome = "AttributeError"

\* the callable/property counterpart of a block
Twin(xblock) ==
    [xblock EXCEPT !.callable = ~@,
                   !.is_past_due_returns = xblock.is_past_due_value,
                   !.is_past_due_value = xblock.is_past_due_returns]

\* C9: two blocks equal in self_paced, attempts and max_attempts, one with
\* is_past_due a method returning b and one with is_past_due a property of value
\* b, get the same result from is_shiftable in every state of the warned set, and
\* neither call raises.
C9_PropertySameResult ==
    (/\ call.op = "is_shiftable"
     /\ hasattr(call.xblock, "is_past_due")
     /\ HasPacing(call.xblock))
        => \A warned \in SUBSET Names :
              LET other == IsBlockShiftable(Twin(call.xblock),
                              [warnings |-> warned, log |-> <<>>, evals |-> <<>>])
              IN  /\ call.outcome = "return"
                  /\ other.outcome = "return"
                  /\ other.value = call.value

\* a property-style block evaluated when its class was already warned about: it
\* is shiftable, as its method-style twin is
C9_Witness ==
    /\ call.op = "is_shiftable"
    /\ ~call.xblock.callable
    /\ call.xblock.is_past_due_value
    /\ Len(evals) >= 2
    /\ call.outcome = "return"
    /\ call.value
    /\ Verdict(Twin(call.xblock)).value

----------------------------------------------------------------------------
(* Properties of the warning *)

EvalTypes == {evals[i].type : i \in 1..Len(evals)}

\* C8, as claimed: the warning is emitted at most once per class, on the first
\* evaluation of an instance of the class with a non-callable is_past_due, and
\* the warned set keeps every name it was given.
C8_AsClaimed ==
    /\ \A i \in 1..Len(evals) : evals[i].warned
    /\ \A t \in LeafTypes : Count(log, TypeName(t)) <= 1
    /\ \A i \in 1..Len(log) : log[i] \in past_due_class_warnings

\* C8, amended: the warning is emitted at most once per class name
\* (type(xblock).__name__): on the first evaluation of an instance of any class
\* of that name with a non-callable is_past_due, and on no later evaluation,
\* also not the first one of another class of the same name. The warned set
\* keeps every name it was given.
C8_OncePerClassName ==
    /\ \A i \in 1..Len(evals) :
          evals[i].warned =
              ~\E j \in 1..(i - 1) : TypeName(evals[j].type) = TypeName(evals[i].type)
    /\ \A n \in Names :
          Count(log, n) = IF \E t \in EvalTypes : TypeName(t) = n THEN 1 ELSE 0
    /\ \A i \in 1..Len(log) : log[i] \in past_due_class_warnings
    /\ past_due_class_warnings = {TypeName(t) : t \in EvalTypes}

\* two classes of one name were evaluated, property-style: one warning
C8_Witness ==
    /\ \E i, j \in 1..Len(evals) :
          /\ i < j
          /\ TypeName(evals[i].type) = TypeName(evals[j].type)
          /\ evals[i].warned
          /\ ~evals[j].warned
    /\ Count(log, "ProblemBlock") = 1
    /\ call.op = "is_shiftable"
    /\ ~call.xblock.callable
    /\ hasattr(call.xblock, "is_past_due")

----------------------------------------------------------------------------
(* Properties of is_request_from_learning_mfe *)

\* C7: is_request_from_learning_mfe is true exactly when the referrer header
\* starts with the configured URL, and false when the header is absent, for
\* every configured URL.
C7_ReferrerPrefix ==
    call.op = "is_request_from_learning_mfe"
        => /\ call.request.META.has_referer =>
                 (call.value = IsPrefix(LEARNING_MICROFRONTEND_URL,
                                        call.request.META.HTTP_REFERER))
           /\ ~call.request.META.has_referer => ~call.value

----------------------------------------------------------------------------
(* Properties of the concurrent calls *)

AllDone == \A t \in Threads : threads[t].pc = "done"

\* the threads that evaluated a class of this name with a non-callable is_past_due
PropertyCallers(n) ==
    {t \in Threads : /\ threads[t].pc # "idle"
                     /\ hasattr(threads[t].xblock, "is_past_due")
                     /\ ~threads[t].xblock.callable
                     /\ TypeName(threads[t].xblock.type) = n}

\* the call run alone, from the class state of a fresh process
Alone(xblock) ==
    IsBlockShiftable(xblock, [warnings |-> {}, log |-> <<>>, evals |-> <<>>])

\* C10: with no lock around the test and the insertion, every call gives what
\* it gives when run alone; when all calls are over the warned set holds exactly
\* the names evaluated with a non-callable is_past_due, in every interleaving;
\* and the warning for such a name was logged at least once and at most once
\* per thread that evaluated it, and for no other name.
C10_BenignRace ==
    /\ \A t \in Threads :
          threads[t].pc = "done" =>
              /\ threads[t].outcome = Alone(threads[t].xblock).outcome
              /\ threads[t].value = Alone(threads[t].xblock).value
    /\ AllDone =>
          /\ past_due_class_warnings = {n \in Names : PropertyCallers(n) # {}}
          /\ \A n \in Names :
                /\ PropertyCallers(n) # {} => Count(log, n) >= 1
                /\ Count(log, n) <= Cardinality(PropertyCallers(n))

\* two threads met a class name for the first time together: it was logged twice
C10_Witness ==
    /\ AllDone
    /\ \E n \in Names : Count(log, n) = 2
    /\ \E t \in Threads : threads[t].outcome = "return" /\ threads[t].value

====
